---- MODULE Spec2Model ----
(***************************************************************************)
(* Model of the EdTech investment pipeline.                                *)
(*                                                                         *)
(*   main.py                the ranked-retry graph: Agent A, bulk          *)
(*                          evaluation and ranking, the selector, the      *)
(*                          validation gates B..H, Report_Success          *)
(*   agents/evaluation.py   comprehensive_judge_agent (five categories)    *)
(*   agents/judge_agent.py  comprehensive_judge_agent (six categories)     *)
(*                                                                         *)
(*   agents/*_agent.py      the six scoring stages of the agents package   *)
(*   select_and_evaluate.py the bulk evaluation script                     *)
(*                                                                         *)
(* Spec      the graph of main.py as app.invoke runs it                    *)
(* FairSpec  Spec with weak fairness: the engine always runs the next node *)
(* SpecJudge the two aggregators applied to a vector of category scores    *)
(* SpecGate  run_validation_agent applied to a candidate and LLM outcomes  *)
(* SpecWorkflow  the sequential workflow of agents/evaluation.py           *)
(* SpecAgents    the stages of the agents package fanned out on one record *)
(* SpecBulk      the bulk evaluation of main.py and select_and_evaluate.py *)
(* SpecReports   the runs of Spec and of SpecWorkflow together             *)
(***************************************************************************)
EXTENDS Integers, Sequences, FiniteSets, TLC

VARIABLES
    pc,                      \* node the engine runs next, or a terminal marker
    steps,                   \* supersteps executed so far by app.invoke
    initial_candidates,      \* AgentState.initial_candidates
    ranked_evaluations,      \* AgentState.ranked_evaluations
    current_rank_index,      \* AgentState.current_rank_index
    current_startup_details, \* AgentState.current_startup_details
    last_decision,           \* AgentState.last_decision
    outcome,                 \* what __main__ reports after app.invoke
    gatesRun,                \* history: <<gate, decision>> since the last selection
    selectedPos,             \* history: 1-based pool position of the last selection
    selectCount,             \* history: how often each pool position was selected
    rejectedPos,             \* history: pool positions rejected by a gate
    reportCount,             \* history: executions of Report_Success
    jstate,                  \* SpecJudge: the evaluation record of one candidate
    gcall,                   \* SpecGate: one call of run_validation_agent
    wf,                      \* SpecWorkflow: one run of the agents/evaluation.py workflow
    fan,                     \* SpecAgents: the stages of the agents package on one record
    bulk                     \* SpecBulk: one bulk evaluation pass and its ranked table

vars == <<pc, steps, initial_candidates, ranked_evaluations, current_rank_index,
          current_startup_details, last_decision, outcome, gatesRun, selectedPos,
          selectCount, rejectedPos, reportCount, jstate, gcall, wf, fan, bulk>>

\* the variables of the specifications added to the four first ones
stageVars == <<wf, fan, bulk>>

graphVars == <<pc, steps, initial_candidates, ranked_evaluations, current_rank_index,
               current_startup_details, last_decision, outcome, gatesRun, selectedPos,
               selectCount, rejectedPos, reportCount>>

----------------------------------------------------------------------------
(* Bounds of the model *)

\* pools of up to MaxCandidates candidates are evaluated with every outcome
MaxCandidates == 3

\* one larger pool, evaluated with the same outcome for every candidate
LargePool == 25

----------------------------------------------------------------------------
(* Program constants *)

\* config={"recursion_limit": 200}
recursion_limit == 200

\* for _ in range(3)
MaxAttempts == 3

ACCEPT_THRESHOLD == 70

SCORE_FLOOR == 50

----------------------------------------------------------------------------
(* Values of the graph state *)

\* the value None, and the value .get() yields for a missing key
None == [startup_name |-> 0, error |-> "None", total_score |-> 0]

\* the "error" key is missing from an entry
NoError == "absent"

\* Python truthiness of a current_startup_details value
Truthy(details) == details # None

END == "END"

GateOrder == <<"Agent_B_Validate", "Agent_C_Validate", "Agent_D_Validate",
               "Agent_E_Validate", "Agent_F_Validate", "Agent_G_Validate",
               "Agent_H_Validate">>

Gates == {GateOrder[i] : i \in 1..Len(GateOrder)}

GateIndex(g) == CHOOSE i \in 1..Len(GateOrder) : GateOrder[i] = g

----------------------------------------------------------------------------
(* Agent A *)

\* the candidate lists Agent A can produce: sorted distinct names, written 1..n
CandidateLists == {[i \in 1..n |-> i] : n \in (0..MaxCandidates) \cup {LargePool}}

\* router_after_a going on to the evaluation whatever the list
router_after_a_AlwaysEvaluate(cands) == "Evaluate_All_And_Rank"

router_after_a(cands) == IF cands # <<>> THEN "Evaluate_All_And_Rank" ELSE END

node_agent_a_generate_list ==
    /\ pc = "Agent_A_Generate_List"
    /\ steps < recursion_limit
    /\ \E cands \in CandidateLists :
        /\ initial_candidates' = cands
        /\ pc' = router_after_a(cands)
    /\ steps' = steps + 1
    /\ UNCHANGED <<ranked_evaluations, current_rank_index, current_startup_details,
                   last_decision, outcome, gatesRun, selectedPos, selectCount,
                   rejectedPos, reportCount, jstate, gcall, stageVars>>

----------------------------------------------------------------------------
(* Evaluate_All_And_Rank *)

\* total scores of a candidate whose evaluation succeeded: the sum of the six
\* category scores of the model's JSON, which the code does not clamp
TotalScores == {-1, 0, 85, 90}

\* what the evaluation of one candidate appends to all_evaluations
EvalOutcomes ==
    {[error |-> "Context Retrieval Failed", total_score |-> 0],
     [error |-> "Evaluation Failed", total_score |-> 0]}
    \cup {[error |-> NoError, total_score |-> s] : s \in TotalScores}
    \cup {[error |-> "from model JSON", total_score |-> 90]}

\* the outcomes of a whole pool: free per candidate for the small pools, the
\* same for every candidate of the large pool
PoolOutcomes(n) ==
    IF n <= MaxCandidates
    THEN [1..n -> EvalOutcomes]
    ELSE {[i \in 1..n |-> o] : o \in EvalOutcomes}

all_evaluations(cands, outs) ==
    [i \in 1..Len(cands) |->
        [startup_name |-> cands[i], error |-> outs[i].error,
         total_score |-> outs[i].total_score]]

\* RankOf with the entries of equal total_score in reverse input order
RankOf_TiesReversed(evals, i) ==
    Cardinality({j \in 1..Len(evals) : evals[j].total_score > evals[i].total_score})
    + Cardinality({j \in i..Len(evals) : evals[j].total_score = evals[i].total_score})

\* 1-based place of evals[i] in the descending stable order: after every entry
\* with a greater total_score and after the earlier entries with the same one
RankOf(evals, i) ==
    Cardinality({j \in 1..Len(evals) : evals[j].total_score > evals[i].total_score})
    + Cardinality({j \in 1..i : evals[j].total_score = evals[i].total_score})

\* sorted(all_evaluations, key=total_score, reverse=True): stable, descending
sorted_evaluations(evals) ==
    [r \in 1..Len(evals) |->
        evals[CHOOSE i \in 1..Len(evals) : RankOf(evals, i) = r]]

router_after_evaluate(ranked) ==
    IF ranked # <<>> THEN "Select_Ranked_Startup" ELSE END

node_evaluate_all_and_rank ==
    /\ pc = "Evaluate_All_And_Rank"
    /\ steps < recursion_limit
    /\ \E outs \in PoolOutcomes(Len(initial_candidates)) :
        LET ranked == sorted_evaluations(all_evaluations(initial_candidates, outs))
        IN  /\ ranked_evaluations' = ranked
            /\ selectCount' = [i \in 1..Len(ranked) |-> 0]
            /\ pc' = router_after_evaluate(ranked)
    /\ current_rank_index' = 0
    /\ steps' = steps + 1
    /\ UNCHANGED <<initial_candidates, current_startup_details, last_decision,
                   outcome, gatesRun, selectedPos, rejectedPos, reportCount,
                   jstate, gcall, stageVars>>

----------------------------------------------------------------------------
(* Select_Ranked_Startup *)

\* Skipped without the test of the error flag
Skipped_NoErrorTest(entry) == entry.total_score <= 0

\* Skipped without the test of the total score
Skipped_NoScoreTest(entry) == entry.error # NoError

\* the entry is skipped: .get("error") is truthy or total_score <= 0
Skipped(entry) == entry.error # NoError \/ entry.total_score <= 0

\* SelectLoop starting one entry too far
RECURSIVE SelectLoop_StartsLate(_, _)
SelectLoop_StartsLate(ranked_list, current_index) ==
    IF current_index + 1 < Len(ranked_list)
    THEN IF Skipped(ranked_list[current_index + 2])
         THEN SelectLoop_StartsLate(ranked_list, current_index + 1)
         ELSE current_index + 1
    ELSE Len(ranked_list)

\* the while loop: the 0-based index at which it stops
RECURSIVE SelectLoop(_, _)
SelectLoop(ranked_list, current_index) ==
    IF current_index < Len(ranked_list)
    THEN IF Skipped(ranked_list[current_index + 1])
         THEN SelectLoop(ranked_list, current_index + 1)
         ELSE current_index
    ELSE current_index

\* select_ranked_startup returning the index of the selection as the new cursor
select_ranked_startup_SameIndex(ranked_list, current_index) ==
    LET i == SelectLoop(ranked_list, current_index)
    IN  IF i < Len(ranked_list)
        THEN [current_startup_details |-> ranked_list[i + 1],
              current_rank_index |-> i]
        ELSE [current_startup_details |-> None, current_rank_index |-> i]

\* the update node_select_ranked_startup returns
select_ranked_startup(ranked_list, current_index) ==
    LET i == SelectLoop(ranked_list, current_index)
    IN  IF i < Len(ranked_list)
        THEN [current_startup_details |-> ranked_list[i + 1],
              current_rank_index |-> i + 1]
        ELSE [current_startup_details |-> None, current_rank_index |-> i]

router_after_select(details) ==
    IF Truthy(details) THEN "Agent_B_Validate" ELSE END

node_select_ranked_startup ==
    /\ pc = "Select_Ranked_Startup"
    /\ steps < recursion_limit
    /\ LET upd == select_ranked_startup(ranked_evaluations, current_rank_index)
       IN  /\ current_startup_details' = upd.current_startup_details
           /\ current_rank_index' = upd.current_rank_index
           /\ pc' = router_after_select(upd.current_startup_details)
           /\ IF Truthy(upd.current_startup_details)
              THEN /\ selectedPos' = upd.current_rank_index
                   /\ selectCount' =
                        [selectCount EXCEPT ![upd.current_rank_index] = @ + 1]
              ELSE /\ selectedPos' = 0
                   /\ selectCount' = selectCount
    /\ gatesRun' = <<>>
    /\ steps' = steps + 1
    /\ UNCHANGED <<initial_candidates, ranked_evaluations, last_decision, outcome,
                   rejectedPos, reportCount, jstate, gcall, stageVars>>

----------------------------------------------------------------------------
(* run_validation_agent *)

\* texts are sequences of characters
Whitespace == {" ", "\n"}

ToLower(c) ==
    CASE c = "P" -> "p"
      [] c = "A" -> "a"
      [] c = "S" -> "s"
      [] c = "F" -> "f"
      [] c = "I" -> "i"
      [] c = "L" -> "l"
      [] OTHER -> c

\* str.lower()
Lower(text) == [i \in 1..Len(text) |-> ToLower(text[i])]

RECURSIVE LStrip(_)
LStrip(text) ==
    IF text # <<>> /\ Head(text) \in Whitespace THEN LStrip(Tail(text)) ELSE text

RECURSIVE RStrip(_)
RStrip(text) ==
    IF text # <<>> /\ text[Len(text)] \in Whitespace
    THEN RStrip(SubSeq(text, 1, Len(text) - 1))
    ELSE text

\* str.strip()
Strip(text) == RStrip(LStrip(text))

PassText == <<"p", "a", "s", "s">>

FailText == <<"f", "a", "i", "l">>

\* contents the model can answer with
LLMContents ==
    {PassText,
     FailText,
     <<" ", "P", "a", "s", "s", "\n">>,
     <<"F", "A", "I", "L">>,
     <<"p", "a", "s", "s", ".">>,
     <<>>}

\* one llm.invoke(prompt): it raises, or it returns a content
LLMAttempts ==
    {[raised |-> TRUE, content |-> <<>>]}
    \cup {[raised |-> FALSE, content |-> c] : c \in LLMContents}

\* the successive llm.invoke calls of one gate: a call follows only a call that
\* raised, and the calls stop after MaxAttempts
AttemptSeqs ==
    {s \in UNION {[1..n -> LLMAttempts] : n \in 1..MaxAttempts} :
        /\ \A i \in 1..(Len(s) - 1) : s[i].raised
        /\ s[Len(s)].raised => Len(s) = MaxAttempts}

\* RetryLoop passing the gate when every call raised
RECURSIVE RetryLoop_PassOnFailure(_, _)
RetryLoop_PassOnFailure(attempts, k) ==
    IF k > MaxAttempts
    THEN "continue"
    ELSE IF attempts[k].raised
         THEN RetryLoop_PassOnFailure(attempts, k + 1)
         ELSE LET response == Lower(Strip(attempts[k].content))
              IN  IF response \in {PassText, FailText}
                  THEN IF response = PassText THEN "continue" ELSE "reject"
                  ELSE "reject"

\* the retry loop from its k-th pass on
RECURSIVE RetryLoop(_, _)
RetryLoop(attempts, k) ==
    IF k > MaxAttempts
    THEN "reject"
    ELSE IF attempts[k].raised
         THEN RetryLoop(attempts, k + 1)
         ELSE LET response == Lower(Strip(attempts[k].content))
              IN  IF response \in {PassText, FailText}
                  THEN IF response = PassText THEN "continue" ELSE "reject"
                  ELSE "reject"

run_validation_agent(startup_details, attempts) ==
    IF ~Truthy(startup_details)
    THEN "reject"
    ELSE RetryLoop(attempts, 1)

----------------------------------------------------------------------------
(* Agents B..H and the routing after a gate *)

\* router_after_validation proceeding whatever the decision
router_after_validation_AlwaysProceed(decision) == "proceed"

router_after_validation(decision) ==
    IF decision = "continue" THEN "proceed" ELSE "reject_and_select_new"

\* GateEdge with the edge of gate F wired to Report_Success
GateEdge_SkipsGH(gate, route) ==
    IF route = "proceed"
    THEN IF GateIndex(gate) < Len(GateOrder) - 2
         THEN GateOrder[GateIndex(gate) + 1]
         ELSE "Report_Success"
    ELSE "Select_Ranked_Startup"

\* GateEdge with the proceed edge of gate H wired to END
GateEdge_HToEnd(gate, route) ==
    IF route = "proceed"
    THEN IF GateIndex(gate) < Len(GateOrder)
         THEN GateOrder[GateIndex(gate) + 1]
         ELSE END
    ELSE "Select_Ranked_Startup"

\* the conditional edges of a gate
GateEdge(gate, route) ==
    IF route = "proceed"
    THEN IF GateIndex(gate) < Len(GateOrder)
         THEN GateOrder[GateIndex(gate) + 1]
         ELSE "Report_Success"
    ELSE "Select_Ranked_Startup"

node_agent_validate(gate) ==
    /\ pc = gate
    /\ steps < recursion_limit
    /\ \E attempts \in AttemptSeqs :
        LET decision == run_validation_agent(current_startup_details, attempts)
        IN  /\ last_decision' = decision
            /\ pc' = GateEdge(gate, router_after_validation(decision))
            /\ gatesRun' = Append(gatesRun, <<gate, decision>>)
            /\ rejectedPos' = IF decision = "reject"
                              THEN rejectedPos \cup {selectedPos}
                              ELSE rejectedPos
    /\ steps' = steps + 1
    /\ UNCHANGED <<initial_candidates, ranked_evaluations, current_rank_index,
                   current_startup_details, outcome, selectedPos, selectCount,
                   reportCount, jstate, gcall, stageVars>>

node_agent_b_validate == node_agent_validate("Agent_B_Validate")

node_agent_c_validate == node_agent_validate("Agent_C_Validate")

node_agent_d_validate == node_agent_validate("Agent_D_Validate")

node_agent_e_validate == node_agent_validate("Agent_E_Validate")

node_agent_f_validate == node_agent_validate("Agent_F_Validate")

node_agent_g_validate == node_agent_validate("Agent_G_Validate")

node_agent_h_validate == node_agent_validate("Agent_H_Validate")

----------------------------------------------------------------------------
(* Report_Success, the end of app.invoke and the report of __main__ *)

\* node_report_success returning {"current_startup_details": None}
node_report_success_ClearsDetails ==
    /\ pc = "Report_Success"
    /\ steps < recursion_limit
    /\ pc' = END
    /\ reportCount' = reportCount + 1
    /\ steps' = steps + 1
    /\ current_startup_details' = None
    /\ UNCHANGED <<initial_candidates, ranked_evaluations, current_rank_index,
                   last_decision, outcome, gatesRun,
                   selectedPos, selectCount, rejectedPos, jstate, gcall, stageVars>>

node_report_success ==
    /\ pc = "Report_Success"
    /\ steps < recursion_limit
    /\ pc' = END
    /\ reportCount' = reportCount + 1
    /\ steps' = steps + 1
    /\ UNCHANGED <<initial_candidates, ranked_evaluations, current_rank_index,
                   current_startup_details, last_decision, outcome, gatesRun,
                   selectedPos, selectCount, rejectedPos, jstate, gcall, stageVars>>

Nodes == {"Agent_A_Generate_List", "Evaluate_All_And_Rank", "Select_Ranked_Startup",
          "Report_Success"} \cup Gates

\* app.invoke raises GraphRecursionError: the step ceiling is used up and a
\* node is still to run
graph_recursion_error ==
    /\ pc \in Nodes
    /\ steps >= recursion_limit
    /\ pc' = "GraphRecursionError"
    /\ UNCHANGED <<steps, initial_candidates, ranked_evaluations, current_rank_index,
                   current_startup_details, last_decision, outcome, gatesRun,
                   selectedPos, selectCount, rejectedPos, reportCount, jstate, gcall, stageVars>>

\* the test __main__ applies to final_state
success_test(decision, details) == decision = "continue" /\ Truthy(details)

\* app.invoke returned
main_final_state ==
    /\ pc = END
    /\ pc' = "done"
    /\ outcome' = IF success_test(last_decision, current_startup_details)
                  THEN "success"
                  ELSE "no_startup_passed"
    /\ UNCHANGED <<steps, initial_candidates, ranked_evaluations, current_rank_index,
                   current_startup_details, last_decision, gatesRun, selectedPos,
                   selectCount, rejectedPos, reportCount, jstate, gcall, stageVars>>

\* except Exception as e
main_except ==
    /\ pc = "GraphRecursionError"
    /\ pc' = "done"
    /\ outcome' = "fatal_error"
    /\ UNCHANGED <<steps, initial_candidates, ranked_evaluations, current_rank_index,
                   current_startup_details, last_decision, gatesRun, selectedPos,
                   selectCount, rejectedPos, reportCount, jstate, gcall, stageVars>>

----------------------------------------------------------------------------
(* The graph of main.py *)

NoJudge == [stage |-> "none"]

NoCall == [stage |-> "none"]

\* no workflow run, no stage call and no bulk pass is under way
StagesIdle ==
    /\ wf = [pc |-> "idle"]
    /\ fan = [phase |-> "idle"]
    /\ bulk = [stage |-> "idle"]

Init ==
    /\ pc = "Agent_A_Generate_List"
    /\ steps = 0
    /\ initial_candidates = <<>>
    /\ ranked_evaluations = <<>>
    /\ current_rank_index = 0
    /\ current_startup_details = None
    /\ last_decision = "absent"
    /\ outcome = "running"
    /\ gatesRun = <<>>
    /\ selectedPos = 0
    /\ selectCount = <<>>
    /\ rejectedPos = {}
    /\ reportCount = 0
    /\ jstate = NoJudge
    /\ gcall = NoCall
    /\ StagesIdle

Next ==
    \/ node_agent_a_generate_list
    \/ node_evaluate_all_and_rank
    \/ node_select_ranked_startup
    \/ node_agent_b_validate
    \/ node_agent_c_validate
    \/ node_agent_d_validate
    \/ node_agent_e_validate
    \/ node_agent_f_validate
    \/ node_agent_g_validate
    \/ node_agent_h_validate
    \/ node_report_success
    \/ graph_recursion_error
    \/ main_final_state
    \/ main_except

Spec == Init /\ [][Next]_vars

\* the engine runs the next node whenever there is one
FairSpec == Spec /\ WF_vars(Next)

----------------------------------------------------------------------------
(* The aggregators: comprehensive_judge_agent of agents/evaluation.py and of   *)
(* agents/judge_agent.py                                                       *)

\* "투자"
ACCEPT == "invest"

\* "보류"
HOLD == "hold"

Categories == {"technology", "learning_effectiveness", "market", "competition",
               "growth_potential", "risk"}

\* the categories agents/evaluation.py scores and aggregates
EvaluationCategories == Categories \ {"risk"}

\* the category scores the aggregators are applied to
ScoreValues == {0, 30, 49, 50, 70, 100}

\* weights of agents/evaluation.py, in percent
evaluation_weights ==
    [technology |-> 25, learning_effectiveness |-> 20, market |-> 25,
     competition |-> 15, growth_potential |-> 15, risk |-> 0]

\* weights of agents/judge_agent.py, in percent
judge_agent_weights ==
    [technology |-> 20, learning_effectiveness |-> 20, market |-> 25,
     competition |-> 15, growth_potential |-> 10, risk |-> 10]

RECURSIVE SumOver(_, _)
SumOver(f, S) ==
    IF S = {}
    THEN 0
    ELSE LET c == CHOOSE x \in S : TRUE
         IN  f[c] + SumOver(f, S \ {c})

\* the weighted sum, in hundredths of a point
WeightedSum(scores, weights) ==
    SumOver([c \in Categories |-> scores[c] * weights[c]], Categories)

\* int(tech * 0.25 + ...): the code adds the products in binary floating point
\* and truncates; on the score vectors of ScoreValues the result is the integer
\* part of the exact sum
evaluation_total_score(scores) == WeightedSum(scores, evaluation_weights) \div 100

\* evaluation_decision with any() in the place of all()
evaluation_decision_Any(total_score, scores) ==
    IF total_score >= ACCEPT_THRESHOLD
       /\ \E c \in EvaluationCategories : scores[c] >= SCORE_FLOOR
    THEN ACCEPT
    ELSE HOLD

\* total_score >= 70 and all(s >= 50 for s in [tech, learning, market, competition, growth])
evaluation_decision(total_score, scores) ==
    IF total_score >= ACCEPT_THRESHOLD
       /\ \A c \in EvaluationCategories : scores[c] >= SCORE_FLOOR
    THEN ACCEPT
    ELSE HOLD

\* the answers of the model, as sequences of words
JudgeTexts == {<<ACCEPT>>, <<HOLD>>, <<"1.", ACCEPT, "2.", "...">>,
               <<ACCEPT, "or", HOLD>>, <<>>}

\* word in text
Contains(text, word) == \E i \in 1..Len(text) : text[i] = word

\* "투자" if "투자" in decision_text and "보류" not in decision_text else "보류"
judge_agent_decision(decision_text) ==
    IF Contains(decision_text, ACCEPT) /\ ~Contains(decision_text, HOLD)
    THEN ACCEPT
    ELSE HOLD

\* agents/evaluation.py
evaluation_comprehensive_judge_agent ==
    /\ jstate.stage = "scored"
    /\ \E text \in JudgeTexts :
        LET total_score == evaluation_total_score(jstate.scores)
        IN  jstate' = [jstate EXCEPT
                          !.stage = "evaluation_judged",
                          !.total_score = total_score,
                          !.investment_decision =
                              evaluation_decision(total_score, jstate.scores),
                          !.response = text]
    /\ UNCHANGED <<graphVars, gcall, stageVars>>

\* agents/judge_agent.py
judge_agent_comprehensive_judge_agent ==
    /\ jstate.stage = "scored"
    /\ \E text \in JudgeTexts :
        jstate' = [jstate EXCEPT
                      !.stage = "agent_judged",
                      !.final_judge = judge_agent_decision(text),
                      !.response = text]
    /\ UNCHANGED <<graphVars, gcall, stageVars>>

GraphIdle ==
    /\ pc = "idle"
    /\ steps = 0
    /\ initial_candidates = <<>>
    /\ ranked_evaluations = <<>>
    /\ current_rank_index = 0
    /\ current_startup_details = None
    /\ last_decision = "absent"
    /\ outcome = "running"
    /\ gatesRun = <<>>
    /\ selectedPos = 0
    /\ selectCount = <<>>
    /\ rejectedPos = {}
    /\ reportCount = 0

InitJudge ==
    /\ GraphIdle
    /\ StagesIdle
    /\ gcall = NoCall
    /\ jstate \in {[stage |-> "scored", scores |-> sc, total_score |-> -1,
                    investment_decision |-> "absent", final_judge |-> "absent",
                    response |-> <<>>] : sc \in [Categories -> ScoreValues]}

NextJudge ==
    \/ evaluation_comprehensive_judge_agent
    \/ judge_agent_comprehensive_judge_agent

SpecJudge == InitJudge /\ [][NextJudge]_vars

----------------------------------------------------------------------------
(* One call of run_validation_agent *)

\* the candidate details a gate can be called with
GateDetails ==
    {None} \cup {[startup_name |-> 1, error |-> o.error,
                  total_score |-> o.total_score] : o \in EvalOutcomes}

validation_agent_returns ==
    /\ gcall.stage = "called"
    /\ gcall' = [gcall EXCEPT
                    !.stage = "returned",
                    !.result = run_validation_agent(gcall.startup_details,
                                                    gcall.attempts)]
    /\ UNCHANGED <<graphVars, jstate, stageVars>>

InitGate ==
    /\ GraphIdle
    /\ StagesIdle
    /\ jstate = NoJudge
    /\ gcall \in {[stage |-> "called", startup_details |-> d, attempts |-> a,
                   result |-> "none"] : d \in GateDetails, a \in AttemptSeqs}

NextGate == validation_agent_returns

SpecGate == InitGate /\ [][NextGate]_vars

----------------------------------------------------------------------------
(* The scoring stages of the agents package.  A stage is a function from   *)
(* the record it is given and the response of its LLM call to the update   *)
(* it returns, or to the exception that leaves it.  A record is a function *)
(* from its keys to their values.                                          *)

\* the number of analyses the stages can receive
MaxAnalyses == 4

\* the names of AgentState that belong to each category
score_key ==
    [technology |-> "technology_score",
     learning_effectiveness |-> "learning_effectiveness_score",
     market |-> "market_score",
     competition |-> "competition_score",
     growth_potential |-> "growth_potential_score",
     risk |-> "risk_score"]

evidence_key ==
    [technology |-> "technology_analysis_evidence",
     learning_effectiveness |-> "learning_effectiveness_analysis_evidence",
     market |-> "market_analysis_evidence",
     competition |-> "competition_analysis_evidence",
     growth_potential |-> "growth_potential_analysis_evidence",
     risk |-> "risk_analysis_evidence"]

Min(a, b) == IF a < b THEN a ELSE b

Max(a, b) == IF a > b THEN a ELSE b

RECURSIVE SumSeq(_)
SumSeq(s) == IF s = <<>> THEN 0 ELSE Head(s) + SumSeq(Tail(s))

\* An analysis text, as the patterns of extract_score see it: total is the
\* number of one to three digits the first matching total pattern captures
\* (-1: no total pattern matches), items are the numbers of one or two digits
\* the item pattern captures for the items 1..10 that match.
AllAnalyses ==
    <<[total |-> 250, items |-> <<9, 9>>],
      [total |-> -1, items |-> <<99, 99>>],
      [total |-> -1, items |-> <<>>],
      [total |-> 80, items |-> <<>>],
      [total |-> 25, items |-> <<>>],
      [total |-> -1, items |-> <<7, 8>>]>>

Analyses == {AllAnalyses[i] : i \in 1..Min(MaxAnalyses, Len(AllAnalyses))}

\* extract_score without min(100, max(0, ...))
extract_score_Unclamped(analysis) ==
    IF analysis.total >= 0
    THEN analysis.total
    ELSE SumSeq(analysis.items)

\* extract_score of agents/base.py, and its copy in agents/evaluation.py
extract_score(analysis) ==
    IF analysis.total >= 0
    THEN Min(100, Max(0, analysis.total))
    ELSE Min(100, Max(0, SumSeq(analysis.items)))

\* what (prompt | llm).invoke does in a stage: it raises or returns a response
StageResponses ==
    {[raised |-> TRUE, content |-> "none"]} \cup
    {[raised |-> FALSE, content |-> a] : a \in Analyses}

Raises == [raised |-> TRUE, update |-> <<>>]

Returns(update) == [raised |-> FALSE, update |-> update]

\* state[score key] = score; state[evidence key] = analysis; return state
ReturnState(state, c, score, analysis) ==
    Returns((score_key[c] :> score) @@ (evidence_key[c] :> analysis) @@ state)

\* return {score key: score, evidence key: analysis}
ReturnOwnFields(c, score, analysis) ==
    Returns((score_key[c] :> score) @@ (evidence_key[c] :> analysis))

technology_agent(state, response) ==
    IF response.raised THEN Raises
    ELSE ReturnState(state, "technology",
                     extract_score(response.content), response.content)

learning_effectiveness_agent(state, response) ==
    IF response.raised THEN Raises
    ELSE ReturnState(state, "learning_effectiveness",
                     extract_score(response.content), response.content)

market_agent(state, response) ==
    IF response.raised THEN Raises
    ELSE ReturnOwnFields("market",
                         extract_score(response.content), response.content)

competition_agent(state, response) ==
    IF response.raised THEN Raises
    ELSE ReturnState(state, "competition",
                     extract_score(response.content), response.content)

growth_potential_agent(state, response) ==
    IF response.raised THEN Raises
    ELSE ReturnOwnFields("growth_potential",
                         extract_score(response.content), response.content)

\* agents/risk_agent.py _safe_extract_total_score: extract_score yields an
\* int, so neither the default nor the except branch is taken
safe_extract_total_score(text) ==
    LET score == extract_score(text)
    IN  IF score < 0 THEN 0 ELSE IF score > 100 THEN 100 ELSE score

\* Python's round(score100 / 10): to the nearest integer, a half to the even one
round_tenth(score100) ==
    LET q == score100 \div 10
        r == score100 % 10
    IN  IF r < 5 THEN q
        ELSE IF r > 5 THEN q + 1
        ELSE IF q % 2 = 0 THEN q ELSE q + 1

\* the value risk_agent returns when its LLM call raises
risk_fallback == 3

risk_agent(state, response) ==
    IF response.raised
    THEN Returns("risk_score" :> risk_fallback)
    ELSE Returns("risk_score" :>
                    round_tenth(safe_extract_total_score(response.content)))

scoring_stage(c, state, response) ==
    CASE c = "technology" -> technology_agent(state, response)
      [] c = "learning_effectiveness" -> learning_effectiveness_agent(state, response)
      [] c = "market" -> market_agent(state, response)
      [] c = "competition" -> competition_agent(state, response)
      [] c = "growth_potential" -> growth_potential_agent(state, response)
      [] c = "risk" -> risk_agent(state, response)

\* the record after an update is merged into it
Merge(record, update) == update @@ record

\* the six scores read with a default for a missing one
judge_reads_default(record) == TRUE

\* the reads state["technology_score"] ... state["risk_score"] of
\* judge_agent.py all succeed
judge_reads(record) == \A c \in Categories : score_key[c] \in DOMAIN record

\* The six stages are given the same input record, each once, in any order;
\* the update a stage returns is merged into the record.
stage_runs(c) ==
    /\ fan.phase = "running"
    /\ c \notin DOMAIN fan.responses
    /\ \E response \in StageResponses :
        LET result == scoring_stage(c, fan.input, response)
        IN  fan' = [fan EXCEPT
                       !.responses = (c :> response) @@ @,
                       !.updates = IF result.raised THEN @
                                   ELSE (c :> result.update) @@ @,
                       !.record = IF result.raised THEN @
                                  ELSE Merge(@, result.update)]
    /\ UNCHANGED <<graphVars, jstate, gcall, wf, bulk>>

\* agents/judge_agent.py comprehensive_judge_agent, scheduled on the record as
\* it is: a missing score raises KeyError, and so does a failing LLM call
judge_runs ==
    /\ fan.phase = "running"
    /\ fan.judge = "not_run"
    /\ IF judge_reads(fan.record)
       THEN \/ \E text \in JudgeTexts :
                 fan' = [fan EXCEPT
                            !.judge = "returned",
                            !.record = Merge(@, "final_judge" :>
                                                 judge_agent_decision(text))]
            \/ fan' = [fan EXCEPT !.judge = "raised"]
       ELSE fan' = [fan EXCEPT !.judge = "raised"]
    /\ UNCHANGED <<graphVars, jstate, gcall, wf, bulk>>

InitAgents ==
    /\ GraphIdle
    /\ jstate = NoJudge
    /\ gcall = NoCall
    /\ wf = [pc |-> "idle"]
    /\ bulk = [stage |-> "idle"]
    /\ fan = [phase |-> "running",
              input |-> ("startup_name" :> "startup"),
              record |-> ("startup_name" :> "startup"),
              responses |-> <<>>,
              updates |-> <<>>,
              judge |-> "not_run"]

NextAgents ==
    \/ \E c \in Categories : stage_runs(c)
    \/ judge_runs

SpecAgents == InitAgents /\ [][NextAgents]_vars

----------------------------------------------------------------------------
(* The bulk evaluation and the ranked table it saves, in main.py and in    *)
(* select_and_evaluate.py.                                                 *)

\* What get_startup_context_for_eval returns: the text it found, which may
\* itself hold the word "없음" or "실패", the text "검색된 상세 정보 없음." when the
\* search found nothing, or "Tavily 상세 검색 실패: ..." when the request raised.
\* A text is the sequence of its parts, "none" standing for 없음 and "failure"
\* for 실패; retrieved tells whether the search delivered a context.
StartupContexts ==
    {[retrieved |-> TRUE, text |-> <<"context">>],
     [retrieved |-> TRUE, text |-> <<"context", "none">>],
     [retrieved |-> FALSE, text |-> <<"no details found:", "none">>],
     [retrieved |-> FALSE, text |-> <<"Tavily search:", "failure">>]}

\* "실패" in startup_context or "없음" in startup_context
context_rejected(startup_context) ==
    Contains(startup_context, "failure") \/ Contains(startup_context, "none")

\* One pass of the loop body for a candidate: its context, whether
\* evaluate_startup_with_ai was called, and the entry appended.
CandidateEvaluations ==
    {[context |-> ctx, scored |-> FALSE,
      outcome |-> [error |-> "Context Retrieval Failed", total_score |-> 0]] :
        ctx \in {c \in StartupContexts : context_rejected(c.text)}}
    \cup
    {[context |-> ctx, scored |-> TRUE, outcome |-> o] :
        ctx \in {c \in StartupContexts : ~context_rejected(c.text)},
        o \in {e \in EvalOutcomes : e.error # "Context Retrieval Failed"}}

\* the passes of a whole pool: free per candidate for the small pools, the
\* same for every candidate of the large pool
PoolEvaluations(n) ==
    IF n <= MaxCandidates
    THEN [1..n -> CandidateEvaluations]
    ELSE {[i \in 1..n |-> e] : e \in CandidateEvaluations}

\* the entries the passes append
OutcomesOf(passes) == [i \in 1..Len(passes) |-> passes[i].outcome]

\* what became of the ranked CSV file
NotSaved(status) == [status |-> status, rows |-> <<>>]

Saved(rows) == [status |-> "written", rows |-> rows]

\* main.py: one row for every item of sorted_evaluations, with its error column
main_df_data(sorted) ==
    [i \in 1..Len(sorted) |->
        [startup_name |-> sorted[i].startup_name,
         total_score |-> sorted[i].total_score,
         error |-> sorted[i].error]]

RECURSIVE WithoutError(_)
\* [item for item in sorted_evaluations if "error" not in item]
WithoutError(sorted) ==
    IF sorted = <<>> THEN <<>>
    ELSE IF Head(sorted).error = NoError
         THEN <<Head(sorted)>> \o WithoutError(Tail(sorted))
         ELSE WithoutError(Tail(sorted))

\* select_and_evaluate.py: name and total score of the items without an error key
ranked_data(sorted) ==
    LET kept == WithoutError(sorted)
    IN  [i \in 1..Len(kept) |->
            [startup_name |-> kept[i].startup_name,
             total_score |-> kept[i].total_score]]

\* to_csv writes the file or raises, and the exception is caught and printed
to_csv(rows) == {Saved(rows), NotSaved("failed")}

\* main.py node_evaluate_all_and_rank with the CSV file it writes
main_evaluate_all_and_rank ==
    /\ bulk.stage = "listed"
    /\ bulk.script = "main"
    /\ IF bulk.startup_list = <<>>
       THEN bulk' = [bulk EXCEPT !.stage = "ranked"]
       ELSE \E passes \in PoolEvaluations(Len(bulk.startup_list)) :
              LET sorted == sorted_evaluations(
                                all_evaluations(bulk.startup_list,
                                                OutcomesOf(passes)))
              IN  \E csv \in to_csv(main_df_data(sorted)) :
                    bulk' = [bulk EXCEPT !.stage = "ranked",
                                         !.passes = passes,
                                         !.sorted_evaluations = sorted,
                                         !.csv = csv]
    /\ UNCHANGED <<graphVars, jstate, gcall, wf, fan>>

\* select_and_evaluate.py, steps 2 and 3 of the script
select_and_evaluate_main ==
    /\ bulk.stage = "listed"
    /\ bulk.script = "select_and_evaluate"
    /\ IF bulk.startup_list = <<>>
       THEN bulk' = [bulk EXCEPT !.stage = "ranked"]
       ELSE \E passes \in PoolEvaluations(Len(bulk.startup_list)) :
              LET sorted == sorted_evaluations(
                                all_evaluations(bulk.startup_list,
                                                OutcomesOf(passes)))
              IN  IF ranked_data(sorted) = <<>>
                  THEN bulk' = [bulk EXCEPT !.stage = "ranked",
                                            !.passes = passes,
                                            !.sorted_evaluations = sorted]
                  ELSE \E csv \in to_csv(ranked_data(sorted)) :
                         bulk' = [bulk EXCEPT !.stage = "ranked",
                                              !.passes = passes,
                                              !.sorted_evaluations = sorted,
                                              !.csv = csv]
    /\ UNCHANGED <<graphVars, jstate, gcall, wf, fan>>

InitBulk ==
    /\ GraphIdle
    /\ jstate = NoJudge
    /\ gcall = NoCall
    /\ wf = [pc |-> "idle"]
    /\ fan = [phase |-> "idle"]
    /\ \E script \in {"main", "select_and_evaluate"}, cands \in CandidateLists :
          bulk = [stage |-> "listed",
                  script |-> script,
                  startup_list |-> cands,
                  passes |-> <<>>,
                  sorted_evaluations |-> <<>>,
                  csv |-> NotSaved("skipped")]

NextBulk == main_evaluate_all_and_rank \/ select_and_evaluate_main

SpecBulk == InitBulk /\ [][NextBulk]_vars

----------------------------------------------------------------------------
(* The workflow of agents/evaluation.py: build_agent_workflow chains the   *)
(* five scoring stages, the judge and the report; run_investment_analysis  *)
(* invokes it on initial_state.  An exception in a node leaves invoke.     *)

WorkflowNodes ==
    {"technology", "learning", "market", "competition", "growth", "judge", "report"}

\* the category whose score each scoring node sets
node_category ==
    [technology |-> "technology",
     learning |-> "learning_effectiveness",
     market |-> "market",
     competition |-> "competition",
     growth |-> "growth_potential"]

ScoringNodes == DOMAIN node_category

\* the edges with technology -> learning -> competition, past market
WorkflowEdge_SkipsMarket(node) ==
    CASE node = "technology" -> "learning"
      [] node = "learning" -> "competition"
      [] node = "market" -> "competition"
      [] node = "competition" -> "growth"
      [] node = "growth" -> "judge"
      [] node = "judge" -> "report"
      [] node = "report" -> END

\* the edges with judge -> END, past report
WorkflowEdge_SkipsReport(node) ==
    CASE node = "technology" -> "learning"
      [] node = "learning" -> "market"
      [] node = "market" -> "competition"
      [] node = "competition" -> "growth"
      [] node = "growth" -> "judge"
      [] node = "judge" -> END
      [] node = "report" -> END

\* workflow.add_edge(...)
WorkflowEdge(node) ==
    CASE node = "technology" -> "learning"
      [] node = "learning" -> "market"
      [] node = "market" -> "competition"
      [] node = "competition" -> "growth"
      [] node = "growth" -> "judge"
      [] node = "judge" -> "report"
      [] node = "report" -> END

\* initial_state of run_investment_analysis
initial_state ==
    [startup_name |-> "startup",
     scores |-> [c \in EvaluationCategories |-> 0],
     total_score |-> 0,
     investment_decision |-> "undecided",
     final_report |-> "",
     report_path |-> ""]

\* the node raised: the exception leaves agent.invoke
NodeRaises(node) ==
    wf' = [wf EXCEPT !.pc = "raised", !.executed = Append(@, node)]

\* technology_agent ... growth_potential_agent of agents/evaluation.py: the
\* stage sets its score from the analysis and returns the state
evaluation_scoring_agent(node) ==
    /\ wf.pc = node
    /\ node \in ScoringNodes
    /\ \E response \in StageResponses :
        IF response.raised
        THEN NodeRaises(node)
        ELSE wf' = [wf EXCEPT
                       !.pc = WorkflowEdge(node),
                       !.executed = Append(@, node),
                       !.state.scores[node_category[node]] =
                           extract_score(response.content)]
    /\ UNCHANGED <<graphVars, jstate, gcall, fan, bulk>>

\* comprehensive_judge_agent of agents/evaluation.py as the node "judge"
evaluation_judge ==
    /\ wf.pc = "judge"
    /\ \/ NodeRaises("judge")
       \/ LET scores == [c \in Categories |->
                            IF c \in EvaluationCategories
                            THEN wf.state.scores[c] ELSE 0]
              total_score == evaluation_total_score(scores)
          IN  wf' = [wf EXCEPT
                        !.pc = WorkflowEdge("judge"),
                        !.executed = Append(@, "judge"),
                        !.state.total_score = total_score,
                        !.state.investment_decision =
                            evaluation_decision(total_score, scores)]
    /\ UNCHANGED <<graphVars, jstate, gcall, fan, bulk>>

\* report_generation_agent: the LLM call or the writing of the file may raise
evaluation_report ==
    /\ wf.pc = "report"
    /\ \/ NodeRaises("report")
       \/ wf' = [wf EXCEPT
                    !.pc = WorkflowEdge("report"),
                    !.executed = Append(@, "report"),
                    !.state.final_report = "report",
                    !.state.report_path = "path"]
    /\ UNCHANGED <<graphVars, jstate, gcall, fan, bulk>>

InitWorkflow ==
    /\ GraphIdle
    /\ jstate = NoJudge
    /\ gcall = NoCall
    /\ fan = [phase |-> "idle"]
    /\ bulk = [stage |-> "idle"]
    /\ wf = [pc |-> "technology", state |-> initial_state, executed |-> <<>>]

NextWorkflow ==
    \/ \E node \in ScoringNodes : evaluation_scoring_agent(node)
    \/ evaluation_judge
    \/ evaluation_report

SpecWorkflow == InitWorkflow /\ [][NextWorkflow]_vars

----------------------------------------------------------------------------
(* The two programs that end with a report stage, side by side: a run of   *)
(* the graph of main.py or a run of the workflow of agents/evaluation.py.  *)

InitReports == Init \/ InitWorkflow

NextReports == Next \/ NextWorkflow

SpecReports == InitReports /\ [][NextReports]_vars

----------------------------------------------------------------------------
(* The entry main.py makes of one model answer: evaluate_startup_with_ai   *)
(* parses the JSON and converts the scores, node_evaluate_all_and_rank     *)
(* adds them up.                                                           *)

\* A "score" of the model's JSON: an int, a float (value and tenths), a string
\* that int() parses (numeric, with its value) or does not, or anything else
\* (null, a list, a missing key).
JsonScores ==
    {[type |-> "int", numeric |-> TRUE, value |-> 5, tenths |-> 0],
     [type |-> "int", numeric |-> TRUE, value |-> 9, tenths |-> 0],
     [type |-> "int", numeric |-> TRUE, value |-> -2, tenths |-> 0],
     [type |-> "float", numeric |-> TRUE, value |-> 4, tenths |-> 7],
     [type |-> "str", numeric |-> TRUE, value |-> 12, tenths |-> 0],
     [type |-> "str", numeric |-> FALSE, value |-> 0, tenths |-> 0],
     [type |-> "null", numeric |-> FALSE, value |-> 0, tenths |-> 0]}

ZeroScore == [type |-> "int", numeric |-> TRUE, value |-> 0, tenths |-> 0]

\* the conversion of category_data["score"] in evaluate_startup_with_ai
converted_score(score) ==
    IF score.type = "str"
    THEN IF score.numeric
         THEN [score EXCEPT !.type = "int"]
         ELSE ZeroScore
    ELSE IF score.type \notin {"int", "float"}
         THEN ZeroScore
         ELSE score

\* sum(int(cat_data.get("score", 0)) for cat_data in evaluation_summary.values())
summary_total_score(evaluation_summary) ==
    SumOver([c \in Categories |-> evaluation_summary[c].value], Categories)

\* the model's answer: a JSON object with its six scores, or a text that
\* json.loads rejects or that lacks evaluation_summary or overall_assessment
ModelAnswers ==
    {[parsed |-> FALSE]} \cup
    {[parsed |-> TRUE, evaluation_summary |-> summary] :
        summary \in [Categories -> JsonScores]}

\* evaluate_startup_with_ai and the lines of node_evaluate_all_and_rank that
\* append the entry
evaluate_startup_with_ai ==
    /\ bulk.stage = "answered"
    /\ IF bulk.answer.parsed
       THEN LET summary == [c \in Categories |->
                               converted_score(bulk.answer.evaluation_summary[c])]
            IN  bulk' = [bulk EXCEPT
                            !.stage = "appended",
                            !.entry = [error |-> NoError,
                                       evaluation_summary |-> summary,
                                       total_score |-> summary_total_score(summary)]]
       ELSE bulk' = [bulk EXCEPT
                        !.stage = "appended",
                        !.entry = [error |-> "Evaluation Failed",
                                   total_score |-> 0]]
    /\ UNCHANGED <<graphVars, jstate, gcall, wf, fan>>

InitEntry ==
    /\ GraphIdle
    /\ jstate = NoJudge
    /\ gcall = NoCall
    /\ wf = [pc |-> "idle"]
    /\ fan = [phase |-> "idle"]
    /\ \E answer \in ModelAnswers :
          bulk = [stage |-> "answered", answer |-> answer, entry |-> <<>>]

NextEntry == evaluate_startup_with_ai

SpecEntry == InitEntry /\ [][NextEntry]_vars

----------------------------------------------------------------------------
(* The calls of llm.invoke one execution of run_validation_agent makes.    *)
(* The LLM is an oracle that fixes, for the first, second, ... call, what   *)
(* that call would do; the retry loop decides how many calls are made.     *)

\* what each of the first MaxAttempts + 1 calls would do
LLMOracles == [1..(MaxAttempts + 1) -> LLMAttempts]

\* InvokeLoop going on to the next call after an unexpected answer too
RECURSIVE InvokeLoop_RetriesOnAnswer(_, _)
InvokeLoop_RetriesOnAnswer(oracle, k) ==
    IF k > MaxAttempts
    THEN 0
    ELSE IF oracle[k].raised
            \/ Lower(Strip(oracle[k].content)) \notin {PassText, FailText}
         THEN 1 + InvokeLoop_RetriesOnAnswer(oracle, k + 1)
         ELSE 1

\* the number of llm.invoke calls of the retry loop from its k-th pass on:
\* for _ in range(3), left by the return of the first call that answers
RECURSIVE InvokeLoop(_, _)
InvokeLoop(oracle, k) ==
    IF k > MaxAttempts
    THEN 0
    ELSE IF oracle[k].raised
         THEN 1 + InvokeLoop(oracle, k + 1)
         ELSE 1

\* no call is made for missing details
invoke_count(startup_details, oracle) ==
    IF ~Truthy(startup_details) THEN 0 ELSE InvokeLoop(oracle, 1)

validation_agent_invokes ==
    /\ gcall.stage = "asked"
    /\ gcall' = [gcall EXCEPT
                    !.stage = "answered",
                    !.result = run_validation_agent(gcall.startup_details,
                                                    gcall.oracle),
                    !.invokes = invoke_count(gcall.startup_details, gcall.oracle)]
    /\ UNCHANGED <<graphVars, jstate, stageVars>>

InitRetry ==
    /\ GraphIdle
    /\ StagesIdle
    /\ jstate = NoJudge
    /\ gcall \in {[stage |-> "asked", startup_details |-> d, oracle |-> o,
                   result |-> "none", invokes |-> 0] :
                     d \in GateDetails, o \in LLMOracles}

NextRetry == validation_agent_invokes

SpecRetry == InitRetry /\ [][NextRetry]_vars

----------------------------------------------------------------------------
(* Properties *)

\* C1 (SpecJudge): the aggregator of agents/evaluation.py sets investment_decision to
\* ACCEPT if and only if the weighted total is at least 70 and every one of
\* the five category scores is at least 50, and to HOLD in every other case.
C1_DecisionConjunction ==
    jstate.stage = "evaluation_judged" =>
        /\ jstate.investment_decision \in {ACCEPT, HOLD}
        /\ jstate.investment_decision = ACCEPT <=>
              /\ WeightedSum(jstate.scores, evaluation_weights) >= 70 * 100
              /\ \A c \in EvaluationCategories : jstate.scores[c] >= 50

\* a weighted total of at least 70 with competition = 30 was judged HOLD
C1_Witness ==
    /\ jstate.stage = "evaluation_judged"
    /\ WeightedSum(jstate.scores, evaluation_weights) >= 70 * 100
    /\ jstate.scores["competition"] = 30
    /\ jstate.investment_decision = HOLD

\* the numeric rule over the six categories of agents/judge_agent.py
NumericRule(scores) ==
    IF /\ WeightedSum(scores, judge_agent_weights) >= 70 * 100
       /\ \A c \in Categories : scores[c] >= 50
    THEN ACCEPT
    ELSE HOLD

\* C2 (SpecJudge): final_judge of agents/judge_agent.py is a function of the six scores
\* alone and equals the numeric rule, whatever the model answered.
C2_FinalJudgeIsNumericRule ==
    jstate.stage = "agent_judged" => jstate.final_judge = NumericRule(jstate.scores)

\* C3 (Spec): a gate that returns "reject" is followed by Select_Ranked_Startup, and
\* no further gate runs for that candidate: a reject is the last gate result
\* of a candidate and no gate or report is pending after it.
C3_ShortCircuit ==
    /\ [](\A k \in 1..Len(gatesRun) :
            gatesRun[k][2] = "reject" =>
                k = Len(gatesRun) /\ pc \notin Gates \cup {"Report_Success"})
    /\ [][(pc \in Gates /\ steps' = steps + 1 /\ last_decision' = "reject")
            => pc' = "Select_Ranked_Startup"]_vars

\* gate D rejected a candidate after B and C passed, and the selector is next
C3_Witness ==
    /\ pc = "Select_Ranked_Startup"
    /\ Len(gatesRun) = 3
    /\ gatesRun[3] = <<"Agent_D_Validate", "reject">>

AllGatesPassed == [i \in 1..Len(GateOrder) |-> <<GateOrder[i], "continue">>]

\* C4 (Spec): the gates of a candidate run in the order B..H, each at most once, and
\* Report_Success is reached only when all seven have run for the current
\* candidate since its selection and each returned "continue".
C4_ReportAfterAllGates ==
    /\ Len(gatesRun) <= Len(GateOrder)
    /\ \A k \in 1..Len(gatesRun) : gatesRun[k][1] = GateOrder[k]
    /\ (pc = "Report_Success" \/ reportCount > 0) =>
          /\ gatesRun = AllGatesPassed
          /\ selectedPos \in 1..Len(ranked_evaluations)
          /\ current_startup_details = ranked_evaluations[selectedPos]

\* Report_Success ran for a candidate that passed the seven gates
C4_Witness ==
    /\ pc = END
    /\ reportCount = 1
    /\ gatesRun = AllGatesPassed

\* pool positions at or after the cursor with no error flag and total_score > 0
ValidFrom(ranked_list, cursor) ==
    {i \in (cursor + 1)..Len(ranked_list) :
        ranked_list[i].error = NoError /\ ranked_list[i].total_score > 0}

\* C5 (Spec): the selector returns the first entry at or after the cursor that has no
\* error flag and total_score > 0, with the cursor moved just past it; if
\* there is none it returns None with the cursor at the end of the list.
C5_SelectNext ==
    [][(pc = "Select_Ranked_Startup" /\ steps' = steps + 1) =>
        LET valid == ValidFrom(ranked_evaluations, current_rank_index)
        IN  IF valid # {}
            THEN LET r == CHOOSE i \in valid : \A j \in valid : i <= j
                 IN  /\ current_startup_details' = ranked_evaluations[r]
                     /\ current_rank_index' = r
                     /\ pc' = "Agent_B_Validate"
            ELSE /\ current_startup_details' = None
                 /\ current_rank_index' = Len(ranked_evaluations)
                 /\ pc' = END]_vars

\* the pool [C:90, B:85, A:0/error]: C and B were selected and rejected, then
\* the selector returned None
C5_Witness ==
    /\ Len(ranked_evaluations) = 3
    /\ ranked_evaluations[1] = [startup_name |-> 3, error |-> NoError, total_score |-> 90]
    /\ ranked_evaluations[2] = [startup_name |-> 2, error |-> NoError, total_score |-> 85]
    /\ ranked_evaluations[3].startup_name = 1
    /\ ranked_evaluations[3].error # NoError
    /\ ranked_evaluations[3].total_score = 0
    /\ rejectedPos = {1, 2}
    /\ pc = END
    /\ current_startup_details = None
    /\ current_rank_index = 3

\* C6 (FairSpec): every run of the graph eventually reaches END.
C6_EventuallyEND == <>(pc = END)

\* C7 (Spec): no run ends in an engine error: __main__ reports either the success of
\* Report_Success or that no startup passed.
C7_NoEngineError ==
    /\ pc # "GraphRecursionError"
    /\ pc = "done" => outcome \in {"success", "no_startup_passed"}

\* C8 (SpecGate): run_validation_agent returns "continue" only when the candidate
\* details are present and the first call that did not raise answered, once
\* stripped and lower-cased, exactly "pass"; otherwise it returns "reject".
C8_ConservativeGate ==
    gcall.stage = "returned" =>
        /\ gcall.result \in {"continue", "reject"}
        /\ gcall.result = "continue" <=>
              /\ gcall.startup_details # None
              /\ \E k \in 1..Len(gcall.attempts) :
                    /\ \A j \in 1..(k - 1) : gcall.attempts[j].raised
                    /\ ~gcall.attempts[k].raised
                    /\ Lower(Strip(gcall.attempts[k].content)) = <<"p", "a", "s", "s">>

\* the three calls of a gate all raised and the gate returned "reject"
C8_Witness ==
    /\ gcall.stage = "returned"
    /\ gcall.startup_details # None
    /\ Len(gcall.attempts) = 3
    /\ \A k \in 1..3 : gcall.attempts[k].raised
    /\ gcall.result = "reject"

\* C9 (Spec): current_rank_index never decreases and grows on every selection that
\* returns a candidate; a pool position is selected at most once and never
\* after it was rejected; ranked_evaluations does not change once it is built.
C9_CursorOnlyAdvances ==
    /\ [](\A i \in DOMAIN selectCount : selectCount[i] <= 1)
    /\ [][/\ current_rank_index' >= current_rank_index
          /\ (pc = "Select_Ranked_Startup" /\ steps' = steps + 1
                /\ current_startup_details' # None) =>
                /\ current_rank_index' > current_rank_index
                /\ selectedPos' \notin rejectedPos
                /\ selectedPos' > selectedPos
          /\ pc \notin {"Agent_A_Generate_List", "Evaluate_All_And_Rank"} =>
                ranked_evaluations' = ranked_evaluations]_vars

\* the second pool entry is being validated after the first was rejected
C9_Witness ==
    /\ pc \in Gates
    /\ selectedPos = 2
    /\ rejectedPos = {1}
    /\ selectCount[1] = 1
    /\ selectCount[2] = 1

\* C10 (Spec): when Report_Success runs for the entry at position r, every entry before
\* r has an error flag or total_score <= 0, or was rejected by a gate.
C10_BestAcceptable ==
    (pc = "Report_Success" \/ reportCount > 0) =>
        /\ selectedPos >= 1
        /\ \A i \in 1..(selectedPos - 1) :
              \/ ranked_evaluations[i].error # NoError
              \/ ranked_evaluations[i].total_score <= 0
              \/ i \in rejectedPos

\* the third entry was accepted after the first was rejected and the second,
\* which carries an error flag, was skipped
C10_Witness ==
    /\ reportCount = 1
    /\ selectedPos = 3
    /\ rejectedPos = {1}
    /\ ranked_evaluations[2].error # NoError

\* C11 (SpecJudge): total_score is the weighted sum of the category scores rounded
\* half up to an integer: a sum of 76.5 is stored as 77.
C11_TotalIsRoundHalfUp ==
    jstate.stage = "evaluation_judged" =>
        jstate.total_score =
            (WeightedSum(jstate.scores, evaluation_weights) + 50) \div 100

\* C12 (SpecAgents): every score the aggregator of agents/judge_agent.py reads is on
\* the 0..100 scale: the score a stage stored from an analysis is the 0..100
\* total of that analysis, for risk_score as for the other five.
C12_ScoresOnHundredScale ==
    (fan.phase = "running" /\ fan.judge = "returned") =>
        \A c \in Categories :
            ~fan.responses[c].raised =>
                fan.record[score_key[c]] = extract_score(fan.responses[c].content)

\* C13 (Spec): the ranked pool node_evaluate_all_and_rank produces is a permutation
\* of the evaluated candidates, sorted by total_score in descending order, and
\* entries with equal total_score keep the order the candidates were given in
\* (a candidate's startup_name is its place in the input list).
C13_StableDescending ==
    ranked_evaluations # <<>> =>
        /\ Len(ranked_evaluations) = Len(initial_candidates)
        /\ \A c \in 1..Len(initial_candidates) :
              Cardinality({i \in 1..Len(ranked_evaluations) :
                  ranked_evaluations[i].startup_name = initial_candidates[c]}) = 1
        /\ \A i, j \in 1..Len(ranked_evaluations) :
              i < j =>
                /\ ranked_evaluations[i].total_score >= ranked_evaluations[j].total_score
                /\ ranked_evaluations[i].total_score = ranked_evaluations[j].total_score
                      => ranked_evaluations[i].startup_name
                            < ranked_evaluations[j].startup_name

\* the third candidate was ranked first and the two tied ones follow in input order
C13_Witness ==
    /\ Len(ranked_evaluations) = 3
    /\ ranked_evaluations[1].startup_name = 3
    /\ ranked_evaluations[2].startup_name = 1
    /\ ranked_evaluations[3].startup_name = 2
    /\ ranked_evaluations[2].total_score = ranked_evaluations[3].total_score
    /\ ranked_evaluations[1].total_score > ranked_evaluations[2].total_score

\* the names of a ranked list hold every input candidate exactly once
OnePerCandidate(rows, startup_list) ==
    /\ Len(rows) = Len(startup_list)
    /\ \A c \in 1..Len(startup_list) :
          \E i \in 1..Len(rows) : rows[i].startup_name = startup_list[c]

\* C14 (SpecBulk): after a bulk evaluation, in main.py and in select_and_evaluate.py,
\* the ranked pool and the ranked table that was saved hold exactly one entry
\* for every input candidate: a failed candidate is kept (with its error flag
\* and total_score 0), never dropped.
C14_OneEntryPerCandidate ==
    bulk.stage = "ranked" =>
        /\ OnePerCandidate(bulk.sorted_evaluations, bulk.startup_list)
        /\ bulk.csv.status # "failed" =>
              OnePerCandidate(bulk.csv.rows, bulk.startup_list)

\* the places of the executed sequence where node ran
RunsOf(node) == {k \in 1..Len(wf.executed) : wf.executed[k] = node}

\* C15 (SpecWorkflow): in the workflow of agents/evaluation.py the judge executes only
\* after technology, learning, market, competition and growth have each
\* executed exactly once, the report executes only after the judge, and no
\* stage executes twice in a run.
C15_JudgeAfterAllStages ==
    /\ \A k \in RunsOf("judge") :
          \A node \in ScoringNodes :
              Cardinality({j \in RunsOf(node) : j < k}) = 1
    /\ \A k \in RunsOf("report") : \E j \in RunsOf("judge") : j < k
    /\ \A node \in WorkflowNodes : Cardinality(RunsOf(node)) <= 1

\* a run reached END after its seven stages, the judge sixth and the report last
C15_Witness ==
    /\ wf.pc = END
    /\ Len(wf.executed) = 7
    /\ wf.executed[6] = "judge"
    /\ wf.executed[7] = "report"

\* C16 (SpecAgents): comprehensive_judge_agent of agents/judge_agent.py never decides
\* from fewer than six scores: a final_judge is in the record only if the six
\* scores are, and a judge scheduled while a score is absent raises and
\* leaves no final_judge.
C16_FanInBarrier ==
    fan.phase = "running" =>
        /\ "final_judge" \in DOMAIN fan.record =>
              /\ fan.judge = "returned"
              /\ \A c \in Categories : score_key[c] \in DOMAIN fan.record
        /\ fan.judge = "returned" => "final_judge" \in DOMAIN fan.record
        /\ fan.judge = "raised" => "final_judge" \notin DOMAIN fan.record

\* the judge was scheduled when only risk_score was missing, and raised
C16_Witness ==
    /\ fan.phase = "running"
    /\ fan.judge = "raised"
    /\ DOMAIN fan.updates = Categories \ {"risk"}
    /\ "risk_score" \notin DOMAIN fan.record
    /\ "final_judge" \notin DOMAIN fan.record

\* C17 (SpecAgents): the updates the six scoring stages of the agents package return
\* when they run on the same input record have pairwise disjoint key sets,
\* so that merging two of them in either order gives the same record.
C17_DisjointUpdates ==
    fan.phase = "running" =>
        \A c, d \in DOMAIN fan.updates :
            c # d =>
              /\ DOMAIN fan.updates[c] \cap DOMAIN fan.updates[d] = {}
              /\ Merge(Merge(fan.input, fan.updates[c]), fan.updates[d])
                    = Merge(Merge(fan.input, fan.updates[d]), fan.updates[c])

\* the keys that belong to the stage of category c
OwnKeys(c) == {score_key[c], evidence_key[c]}

\* C18 (SpecAgents): every scoring stage returns a partial update that holds only the
\* score and evidence keys of its own category: never startup_name, a key of
\* another category, the decision or a report field.
C18_OwnKeysOnly ==
    fan.phase = "running" =>
        \A c \in DOMAIN fan.updates : DOMAIN fan.updates[c] \subseteq OwnKeys(c)

\* C19 (SpecAgents): in every scoring stage an error raised by the LLM call is caught
\* inside the stage, which still returns an update with a score for its
\* category.
C19_StageCatchesLLMError ==
    fan.phase = "running" =>
        \A c \in DOMAIN fan.responses :
            fan.responses[c].raised =>
                /\ c \in DOMAIN fan.updates
                /\ score_key[c] \in DOMAIN fan.updates[c]

\* C20 (SpecReports): the report stage runs once and the run ends after it.  In
\* main.py Report_Success executes at most once per run, only for the selected
\* candidate after its seven gates passed, it is followed by END with no
\* further node, and a run that ends with success has executed it.  In
\* agents/evaluation.py the report executes at most once, right after the
\* judge whatever the decision, nothing follows it, and a run that reaches END
\* has executed it.
C20_ReportOnceThenEnd ==
    /\ pc # "idle" =>
          /\ reportCount <= 1
          /\ reportCount = 1 =>
                /\ pc \in {END, "done"}
                /\ gatesRun = AllGatesPassed
                /\ last_decision = "continue"
                /\ Truthy(current_startup_details)
          /\ outcome = "success" => reportCount = 1
    /\ wf.pc # "idle" =>
          /\ Cardinality(RunsOf("report")) <= 1
          /\ \A k \in RunsOf("report") :
                /\ k = Len(wf.executed)
                /\ k > 1 /\ wf.executed[k - 1] = "judge"
                /\ wf.state.investment_decision \in {ACCEPT, HOLD}
                /\ wf.pc \in {END, "raised"}
          /\ wf.pc = END => Cardinality(RunsOf("report")) = 1

\* a run of main.py ended with success after one execution of Report_Success
C20_Witness ==
    /\ pc = "done"
    /\ outcome = "success"
    /\ reportCount = 1

\* the weight table of the aggregator that produced the judged record
WeightsUsed ==
    IF jstate.stage = "evaluation_judged" THEN evaluation_weights
    ELSE judge_agent_weights

C22_RetrievalFailureStillScored ==
    bulk.stage = "ranked" =>
        \A i \in 1..Len(bulk.passes) :
            ~bulk.passes[i].context.retrieved =>
                /\ bulk.passes[i].scored
                /\ bulk.passes[i].outcome.error # "Context Retrieval Failed"

\* C23 (SpecEntry): every category score stored in a pool entry of main.py is in the
\* range of its scale, 1..5 or the failure value 0, so that the entry's
\* total_score over the six categories is in 0..30 whatever the model answered.
C23_ScoresClamped ==
    (bulk.stage = "appended" /\ bulk.entry.error = NoError) =>
        /\ \A c \in Categories :
              LET score == bulk.entry.evaluation_summary[c]
              IN  /\ score.value \in 0..5
                  /\ score.value = 5 => score.tenths = 0
        /\ bulk.entry.total_score \in 0..30

\* the scoring nodes of agents/evaluation.py that have not executed yet
NotYetScored == {node \in ScoringNodes : RunsOf(node) = {}}

\* C24 (SpecWorkflow): a category that has not been scored yet is distinguishable from
\* a category scored 0: before a scoring stage has run, the record holds no
\* score for its category.
C24_UnscoredIsAbsent ==
    wf.pc # "idle" =>
        \A node \in NotYetScored :
            node_category[node] \notin DOMAIN wf.state.scores

\* C25 (SpecAgents): extract_score yields an integer in 0..100 for every analysis: a
\* matched total above 100 gives 100, a sum of item scores above 100 gives
\* 100, an analysis in which neither a total nor an item matches gives 0; so
\* every score a stage writes from extract_score is in 0..100.
C25_ExtractedScoreInRange ==
    fan.phase = "running" =>
        \A c \in DOMAIN fan.updates :
            LET score == fan.updates[c][score_key[c]]
                analysis == fan.responses[c].content
            IN  /\ score \in 0..100
                /\ (c # "risk" /\ ~fan.responses[c].raised) =>
                      /\ analysis.total > 100 => score = 100
                      /\ (analysis.total = -1 /\ SumSeq(analysis.items) > 100)
                            => score = 100
                      /\ (analysis.total = -1 /\ analysis.items = <<>>)
                            => score = 0

\* technology stored 100 for a total of 250, market 100 for item scores that add
\* up to 198, growth_potential 0 for an analysis without any score
C25_Witness ==
    /\ fan.phase = "running"
    /\ {"technology", "market", "growth_potential"} \subseteq DOMAIN fan.updates
    /\ fan.responses["technology"].content.total = 250
    /\ fan.record["technology_score"] = 100
    /\ fan.responses["market"].content = [total |-> -1, items |-> <<99, 99>>]
    /\ fan.record["market_score"] = 100
    /\ fan.responses["growth_potential"].content = [total |-> -1, items |-> <<>>]
    /\ fan.record["growth_potential_score"] = 0

\* C26 (Spec): whenever a gate B..H or Report_Success is the node to execute,
\* current_rank_index is at least 1, current_startup_details is the entry of
\* the ranked pool at that 1-based place, and this entry has no error flag
\* and a total_score above 0; the rank Report_Success prints is the place of
\* the accepted candidate.
C26_CurrentIsRankedEntry ==
    pc \in Gates \cup {"Report_Success"} =>
        /\ current_rank_index >= 1
        /\ current_rank_index <= Len(ranked_evaluations)
        /\ current_startup_details = ranked_evaluations[current_rank_index]
        /\ current_startup_details.error = NoError
        /\ current_startup_details.total_score > 0

\* Report_Success is about to print rank 3 for the third entry of the pool, the
\* first entry having an error flag and the second having been rejected
C26_Witness ==
    /\ pc = "Report_Success"
    /\ current_rank_index = 3
    /\ current_startup_details = ranked_evaluations[3]
    /\ ranked_evaluations[1].error # NoError
    /\ rejectedPos = {2}

\* C27 (Spec): at every normal termination of the graph the success test of the
\* caller, last_decision = "continue" and current_startup_details non-empty,
\* holds exactly when Report_Success was executed in the run; a run that ends
\* by pool exhaustion, an empty candidate list or an empty ranked list does
\* not pass it.
C27_SuccessIffReported ==
    /\ pc = END =>
          (success_test(last_decision, current_startup_details) <=> reportCount = 1)
    /\ (pc = "done" /\ outcome # "fatal_error") =>
          /\ outcome = "success" <=> reportCount = 1
          /\ (initial_candidates = <<>> \/ ranked_evaluations = <<>>
              \/ ~Truthy(current_startup_details)) => outcome = "no_startup_passed"

\* the pool was exhausted after its first candidate had passed gates and was
\* rejected, and the caller reported that no startup passed
C27_Witness ==
    /\ pc = "done"
    /\ outcome = "no_startup_passed"
    /\ reportCount = 0
    /\ rejectedPos = {1}
    /\ Len(gatesRun) = 0
    /\ current_rank_index = Len(ranked_evaluations)
    /\ ~Truthy(current_startup_details)

\* a node of the graph executes in this step
Executes(nodes) == pc \in nodes /\ steps' = steps + 1

\* C28 (Spec): Select_Ranked_Startup changes only current_startup_details and
\* current_rank_index, a gate B..H changes only last_decision, Report_Success
\* changes no field of the state, and ranked_evaluations and
\* initial_candidates never change once Evaluate_All_And_Rank has returned.
C28_FrameConditions ==
    [][/\ Executes({"Select_Ranked_Startup"}) =>
             UNCHANGED <<initial_candidates, ranked_evaluations, last_decision>>
       /\ Executes(Gates) =>
             UNCHANGED <<initial_candidates, ranked_evaluations,
                         current_rank_index, current_startup_details>>
       /\ Executes({"Report_Success"}) =>
             UNCHANGED <<initial_candidates, ranked_evaluations, last_decision,
                         current_rank_index, current_startup_details>>
       /\ pc \notin {"Agent_A_Generate_List", "Evaluate_All_And_Rank"} =>
             UNCHANGED <<initial_candidates, ranked_evaluations>>]_vars

\* Report_Success has run for the second entry of a pool of three: the
\* selector had moved the cursor, the gates had set last_decision, and the
\* pool is as ranked
C28_Witness ==
    /\ pc = END
    /\ reportCount = 1
    /\ current_rank_index = 2
    /\ current_startup_details = ranked_evaluations[2]
    /\ last_decision = "continue"
    /\ Len(ranked_evaluations) = 3
    /\ Len(initial_candidates) = 3

\* the calls of the oracle, among the first three, that are the first to answer
FirstAnswer(oracle) ==
    {k \in 1..3 : ~oracle[k].raised /\ \A j \in 1..(k - 1) : oracle[j].raised}

\* C29 (SpecRetry): one execution of run_validation_agent invokes the LLM at most 3
\* times; a further call is made only after a call raised; the first call
\* that answers ends the gate, with continue for "pass" and reject for any
\* other answer; after three raising calls the gate returns reject.
C29_AtMostThreeInvokes ==
    gcall.stage = "answered" =>
        /\ gcall.invokes <= 3
        /\ \A k \in 1..(gcall.invokes - 1) : gcall.oracle[k].raised
        /\ Truthy(gcall.startup_details) =>
              /\ \A k \in FirstAnswer(gcall.oracle) :
                    /\ gcall.invokes = k
                    /\ gcall.result =
                          IF Lower(Strip(gcall.oracle[k].content)) = <<"p", "a", "s", "s">>
                          THEN "continue" ELSE "reject"
              /\ FirstAnswer(gcall.oracle) = {} =>
                    /\ gcall.invokes = 3
                    /\ gcall.result = "reject"

\* the first call raised, the second answered "pass." and the gate rejected
\* after two calls, although a third call would have answered "pass"
C29_Witness ==
    /\ gcall.stage = "answered"
    /\ Truthy(gcall.startup_details)
    /\ gcall.oracle[1].raised
    /\ gcall.oracle[2] = [raised |-> FALSE, content |-> <<"p", "a", "s", "s", ".">>]
    /\ gcall.oracle[3] = [raised |-> FALSE, content |-> <<"p", "a", "s", "s">>]
    /\ gcall.invokes = 2
    /\ gcall.result = "reject"

\* every entry of the ranked pool has an error flag or a total_score of 0 or less
OnlyInvalidEntries ==
    \A i \in 1..Len(ranked_evaluations) :
        ranked_evaluations[i].error # NoError \/ ranked_evaluations[i].total_score <= 0

\* C30 (Spec): early exits of the graph.  With an empty candidate list the run goes
\* from Agent A to END and no other node executes; with an empty ranked list
\* it goes from the evaluation to END and the selector does not execute; with
\* a ranked list of invalid entries only, the selector executes once, returns
\* None, and the run ends with no gate executed.
C30_EarlyExits ==
    /\ (initial_candidates = <<>> /\ pc # "Agent_A_Generate_List") =>
          /\ pc \in {END, "done"}
          /\ steps = 1
          /\ ranked_evaluations = <<>>
    /\ (initial_candidates # <<>> /\ ranked_evaluations = <<>>
        /\ pc # "Evaluate_All_And_Rank") =>
          /\ pc \in {END, "done"}
          /\ steps = 2
    /\ (ranked_evaluations # <<>> /\ OnlyInvalidEntries) =>
          /\ pc \in {"Select_Ranked_Startup", END, "done"}
          /\ gatesRun = <<>> /\ rejectedPos = {} /\ reportCount = 0
          /\ pc = "Select_Ranked_Startup" => steps = 2
          /\ pc \in {END, "done"} =>
                /\ steps = 3
                /\ current_startup_details = None
                /\ current_rank_index = Len(ranked_evaluations)

\* a pool of two entries, one with an error flag and one with a total of 0, was
\* ranked, the selector ran once and the run is at END after three nodes
C30_Witness ==
    /\ pc = END
    /\ steps = 3
    /\ Len(ranked_evaluations) = 2
    /\ ranked_evaluations[1].error = NoError
    /\ ranked_evaluations[1].total_score = 0
    /\ ranked_evaluations[2].error # NoError
    /\ current_startup_details = None
    /\ current_rank_index = 2

============================================================================
